---- MODULE Spec2Model ----
(***************************************************************************)
(* ChaCha20 (IETF variant) of crypto_api_chachapoly: the block function    *)
(* chacha20, the keystream driver ChaCha20Ietf::xor, and the SecKeyGen and *)
(* Cipher implementations of src/chacha20_ietf.rs (64-bit target).         *)
(*                                                                         *)
(* TLC's integers are 32-bit signed, so a u32 or usize value is kept as a  *)
(* little-endian tuple of 16-bit limbs: a u32 is <<lo, hi>>, a usize is    *)
(* <<l0, l1, l2, l3>>.  A byte is an integer 0..255.                       *)
(***************************************************************************)
EXTENDS Integers, Sequences, FiniteSets, TLC

\* ------------------------------------------------------------------------
\* Limb arithmetic

Limb == 2 ^ 16

\* u32 values
U32(lo, hi) == <<lo, hi>>
U32_0 == U32(0, 0)
U32_MAX == U32(65535, 65535)

\* usize values (64-bit target)
USize(x) == <<x % Limb, x \div Limb, 0, 0>>

RECURSIVE LimbLess(_, _, _)
\* a < b, comparing limbs i, i-1, ..., 1
LimbLess(a, b, i) ==
    IF i = 0 THEN FALSE
    ELSE IF a[i] # b[i] THEN a[i] < b[i]
    ELSE LimbLess(a, b, i - 1)

ULess(a, b) == LimbLess(a, b, Len(a))
ULeq(a, b) == ~ULess(b, a)

RECURSIVE LimbAdd(_, _, _, _)
\* limbs i.. of a + b + carry, the carry out of the top limb dropped
LimbAdd(a, b, i, carry) ==
    IF i > Len(a) THEN <<>>
    ELSE LET s == a[i] + b[i] + carry
         IN  <<s % Limb>> \o LimbAdd(a, b, i + 1, s \div Limb)

UAdd(a, b) == LimbAdd(a, b, 1, 0)

RECURSIVE LimbSub(_, _, _, _)
\* limbs i.. of a - b - borrow, for a >= b
LimbSub(a, b, i, borrow) ==
    IF i > Len(a) THEN <<>>
    ELSE LET d == a[i] - b[i] - borrow
         IN  <<(d + Limb) % Limb>> \o LimbSub(a, b, i + 1, IF d < 0 THEN 1 ELSE 0)

USub(a, b) == LimbSub(a, b, 1, 0)

UMin(a, b) == IF ULess(b, a) THEN b ELSE a

\* a u32 widened to usize
Widen(w) == <<w[1], w[2], 0, 0>>

\* a usize known to be small, as an integer
Small(u) == u[1] + Limb * u[2]
IsSmall(u) == u[3] = 0 /\ u[4] = 0 /\ u[2] < 2 ^ 14

\* a usize divided by 64
UDiv64(u) ==
    [i \in 1..Len(u) |->
        (u[i] \div 64) + (IF i < Len(u) THEN (u[i + 1] % 64) * (Limb \div 64) ELSE 0)]

\* a usize times 64 (no overflow for the values used)
UMul64(u) ==
    [i \in 1..Len(u) |->
        (u[i] % (Limb \div 64)) * 64 + (IF i > 1 THEN u[i - 1] \div (Limb \div 64) ELSE 0)]

\* the low 32 bits of a usize
Low32(u) == <<u[1], u[2]>>

\* ------------------------------------------------------------------------
\* Bit operations of the crate's macros

RECURSIVE BitXor(_, _, _)
BitXor(a, b, bits) ==
    IF bits = 0 THEN 0
    ELSE ((a + b) % 2) + 2 * BitXor(a \div 2, b \div 2, bits - 1)

RECURSIVE BitOr(_, _, _)
BitOr(a, b, bits) ==
    IF bits = 0 THEN 0
    ELSE (IF a % 2 = 1 \/ b % 2 = 1 THEN 1 ELSE 0) + 2 * BitOr(a \div 2, b \div 2, bits - 1)

\* The two operations on bytes, tabulated
Xor8 == [a \in 0..255 |-> [b \in 0..255 |-> BitXor(a, b, 8)]]
Or8 == [a \in 0..255 |-> [b \in 0..255 |-> BitOr(a, b, 8)]]
Xor16(a, b) == 256 * Xor8[a \div 256][b \div 256] + Xor8[a % 256][b % 256]
Or16(a, b) == 256 * Or8[a \div 256][b \div 256] + Or8[a % 256][b % 256]

\* xor! on two u8
xor_u8(a, b) == Xor8[a][b]

Pow2(r) == 2 ^ r

\* add! on two u32: wrapping addition
add(a, b) == UAdd(a, b)

\* xor! on two u32
xor_u32(a, b) == U32(Xor16(a[1], b[1]), Xor16(a[2], b[2]))

\* or! on two u32
or(a, b) == U32(Or16(a[1], b[1]), Or16(a[2], b[2]))

\* shl! on a u32: the bits shifted out at the top are dropped
shl(a, r) ==
    IF r >= 16
    THEN U32(0, (a[1] * Pow2(r - 16)) % Limb)
    ELSE U32((a[1] * Pow2(r)) % Limb,
             ((a[2] * Pow2(r)) % Limb) + ((a[1] * Pow2(r)) \div Limb))

\* shr! on a u32
shr(a, r) ==
    IF r >= 16
    THEN U32(a[2] \div Pow2(r - 16), 0)
    ELSE U32((a[1] \div Pow2(r)) + (a[2] % Pow2(r)) * Pow2(16 - r),
             a[2] \div Pow2(r))

\* read32_le! on the first four bytes of s[from..] (from is 0-based)
read32_le(s, from) ==
    U32(s[from + 1] + 256 * s[from + 2], s[from + 3] + 256 * s[from + 4])

\* write32_le!: the four bytes of a u32
write32_le(w) == <<w[1] % 256, w[1] \div 256, w[2] % 256, w[2] \div 256>>

\* ------------------------------------------------------------------------
\* The block function

CONSTANTS_ == <<U32(30821, 24944), U32(25710, 13088), U32(11570, 31074), U32(25972, 27424)>>

\* state[x] = add!(state[x], state[y])
qr_add(state, x, y) == [state EXCEPT ![x] = add(state[x], state[y])]
\* state[x] = xor!(state[x], state[y])
qr_xor(state, x, y) == [state EXCEPT ![x] = xor_u32(state[x], state[y])]
\* state[x] = or!(shl!(state[x], l), shr!(state[x], r))
qr_rot(state, x, l, r) == [state EXCEPT ![x] = or(shl(state[x], l), shr(state[x], r))]

\* quarterround with its last rotation by 8 in place of 7
quarterround_rot8(state, a, b, c, d) ==
    qr_rot(qr_xor(qr_add(
    qr_rot(qr_xor(qr_add(
    qr_rot(qr_xor(qr_add(
    qr_rot(qr_xor(qr_add(state,
        a, b), d, a), d, 16, 16),
        c, d), b, c), b, 12, 20),
        a, b), d, a), d, 8, 24),
        c, d), b, c), b, 8, 24)

\* The quarterround macro: its twelve assignments, the first innermost
quarterround(state, a, b, c, d) ==
    qr_rot(qr_xor(qr_add(
    qr_rot(qr_xor(qr_add(
    qr_rot(qr_xor(qr_add(
    qr_rot(qr_xor(qr_add(state,
        a, b), d, a), d, 16, 16),
        c, d), b, c), b, 12, 20),
        a, b), d, a), d, 8, 24),
        c, d), b, c), b, 7, 25)

\* The eight quarterrounds of one pass of the loop, in order
QUARTERROUNDS ==
    << <<0, 4, 8, 12>>, <<1, 5, 9, 13>>, <<2, 6, 10, 14>>, <<3, 7, 11, 15>>,
       <<0, 5, 10, 15>>, <<1, 6, 11, 12>>, <<2, 7, 8, 13>>, <<3, 4, 9, 14>> >>

RECURSIVE doubleround(_, _)
\* Quarterrounds i..8 applied to state (indexed 0..15 as in the source).  The
\* test on state makes TLC compute it before going on, which keeps its stack flat.
doubleround(state, i) ==
    IF i > Len(QUARTERROUNDS) \/ state # state THEN state
    ELSE doubleround(quarterround(state, QUARTERROUNDS[i][1], QUARTERROUNDS[i][2],
                                  QUARTERROUNDS[i][3], QUARTERROUNDS[i][4]), i + 1)

RECURSIVE rounds(_, _)
\* for _ in 0..10: k passes left
rounds(state, k) ==
    IF k = 0 \/ state # state THEN state
    ELSE rounds(doubleround(state, 1), k - 1)

key_words(key) == [i \in 0..7 |-> read32_le(key, i * 4)]
nonce_words(nonce) == [i \in 0..2 |-> read32_le(nonce, i * 4)]

init_state(key, nonce, n) ==
    [i \in 0..15 |->
        IF i < 4 THEN CONSTANTS_[i + 1]
        ELSE IF i < 12 THEN key_words(key)[i - 4]
        ELSE IF i = 12 THEN n
        ELSE nonce_words(nonce)[i - 13]]

RECURSIVE serialize(_, _)
serialize(words, i) ==
    IF i > 15 THEN <<>> ELSE write32_le(words[i]) \o serialize(words, i + 1)

\* Finalize block: the sums, word by word, with what the state began as
finalize(state, key, nonce, n) ==
    [i \in 0..15 |->
        IF i < 4 THEN add(state[i], CONSTANTS_[i + 1])
        ELSE IF i < 12 THEN add(state[i], key_words(key)[i - 4])
        ELSE IF i = 12 THEN add(state[12], n)
        ELSE add(state[i], nonce_words(nonce)[i - 13])]

\* chacha20(key, nonce, n, buf): the 64 bytes written to buf
chacha20(key, nonce, n) ==
    serialize(finalize(rounds(init_state(key, nonce, n), 10), key, nonce, n), 0)

\* ------------------------------------------------------------------------
\* Inputs

\* the longest buffer whose bytes are kept, in 64-byte blocks
MaxBlocks == 2
\* the calls a caller makes in a row, feeding each output to the next call
MaxCalls == 2

\* 2^32 * BLOCK_SIZE, as a usize
CHACHA20_MAX == <<0, 0, 64, 0>>

U1 == USize(1)
U64 == USize(64)

\* A byte slice is [len, bytes]; bytes holds the len bytes, except for a slice
\* too long to keep (len near CHACHA20_MAX), where bytes is <<>>.
Slice(bytes) == [len |-> USize(Len(bytes)), bytes |-> bytes]
Huge(len) == [len |-> len, bytes |-> <<>>]
Tracked(s) == IsSmall(s.len) /\ Len(s.bytes) = Small(s.len)

Lens ==
    {0, 1, 64 * MaxBlocks}
        \cup UNION {{64 * k - 1, 64 * k, 64 * k + 1} : k \in 1..(MaxBlocks - 1)}

Fill(p, len) == [i \in 1..len |-> (p * i + 3 * p) % 256]

HugeLens == {USub(CHACHA20_MAX, U1), CHACHA20_MAX, UAdd(CHACHA20_MAX, U1)}

Slices ==
    {Slice(Fill(p, len)) : p \in {0, 7}, len \in Lens} \cup {Huge(len) : len \in HugeLens}

PayloadLens == {USize(len) : len \in Lens} \cup HugeLens

RFCKey == [i \in 1..32 |-> i - 1]
Keys == {RFCKey, [i \in 1..31 |-> i], [i \in 1..33 |-> i]}

Nonce4a == <<0, 0, 0, 0, 0, 0, 0, 74, 0, 0, 0, 0>>
Nonce09 == <<0, 0, 0, 9, 0, 0, 0, 74, 0, 0, 0, 0>>
Nonces == {Nonce4a, Nonce09, [i \in 1..11 |-> 0], [i \in 1..13 |-> 0]}

\* starting counters of a direct call of the driver
Counters == {U32_0, U32(1, 0), U32(65534, 65535), U32_MAX}

\* ------------------------------------------------------------------------
\* ChaCha20Ietf::xor

\* The driver's locals: the counter n, the bytes of the slice it was given
\* (<<>> where they are not kept) and the slice's length len, how far data
\* has advanced into the slice (off), the block buffer buf (xbuf), and, for
\* the record, the calls of chacha20 made (blocks), the counter the last of
\* them was given (last) and whether the driver panicked.
\* let mut buf = vec![0; 64]
xor_entry(c, data) ==
    [n |-> c, bytes |-> data.bytes, len |-> data.len, off |-> USize(0),
     xbuf |-> [i \in 1..64 |-> 0], blocks |-> USize(0), last |-> c, panicked |-> FALSE]

\* data[i] = xor!(data[i], buf[i]) for i in 0..to_xor, data beginning at
\* offset from of bytes
XorBytes(bytes, from, to_xor, block) ==
    [i \in 1..Len(bytes) |->
        IF from < i /\ i <= from + to_xor
        THEN xor_u8(bytes[i], block[i - from])
        ELSE bytes[i]]

\* xor_block without n += 1
xor_block_same_n(checks, d, block) ==
    [d EXCEPT
        !.xbuf = block, !.blocks = UAdd(@, U1), !.last = d.n,
        !.bytes = IF Len(@) = 0 THEN @
                  ELSE XorBytes(@, Small(d.off), Small(UMin(USub(d.len, d.off), U64)), block),
        !.off = UAdd(@, UMin(USub(d.len, d.off), U64))]

\* The pass of the loop after its call of chacha20, which wrote block.
\* n += 1 on n = u32::MAX overflows: a build with overflow checks panics
\* there, a build without them wraps to 0.
xor_block(checks, d, block) ==
    IF d.n = U32_MAX /\ checks
    THEN [d EXCEPT !.xbuf = block, !.blocks = UAdd(@, U1), !.last = d.n, !.panicked = TRUE]
    ELSE [d EXCEPT
            !.xbuf = block, !.blocks = UAdd(@, U1), !.last = d.n,
            !.n = add(@, U32(1, 0)),
            !.bytes = IF Len(@) = 0 THEN @
                      ELSE XorBytes(@, Small(d.off), Small(UMin(USub(d.len, d.off), U64)),
                                    block),
            !.off = UAdd(@, UMin(USub(d.len, d.off), U64))]

\* One pass of the loop
xor_pass(checks, k, nn, d) == xor_block(checks, d, chacha20(k, nn, d.n))

RECURSIVE xor_loop(_, _, _, _)
\* while !data.is_empty()
xor_loop(checks, k, nn, d) ==
    IF d.panicked \/ d.off = d.len THEN d
    ELSE xor_loop(checks, k, nn, xor_pass(checks, k, nn, d))

\* ChaCha20Ietf::xor(key, nonce, n, data), run to its end
xor(checks, k, nn, c, data) == xor_loop(checks, k, nn, xor_entry(c, data))

\* ------------------------------------------------------------------------
\* State

VARIABLES
    pc,       \* "idle", "xor" (inside ChaCha20Ietf::xor), "done", "panicked"
    op,       \* the operation called
    calls,    \* calls made so far
    key, nonce,
    buf,      \* the caller's buffer (for a direct call of the driver: data)
    pt,       \* the plaintext / ciphertext slice of encrypt_to / decrypt_to
    plen,     \* plaintext_len / plaintext.len()
    drv,      \* the driver's locals
    result,   \* what the call returned
    buf0,     \* buf as it was when the call was made
    start,    \* n as it was when the driver was entered
    plain0,   \* the payload given to the first call
    rng_calls,       \* calls of rng.random made
    overflow_checks  \* the build: "on", "off", or "any" while no overflow has shown it

vars == <<pc, op, calls, key, nonce, buf, pt, plen, drv, result,
          buf0, start, plain0, rng_calls, overflow_checks>>

NoSlice == Slice(<<>>)
NoResult == [kind |-> "none", val |-> USize(0)]
Ok(v) == [kind |-> "Ok", val |-> v]
ApiMisuse(msg) == [kind |-> "ApiMisuse", val |-> msg]

Init ==
    /\ pc = "idle" /\ op = "none" /\ calls = 0
    /\ key = <<>> /\ nonce = <<>>
    /\ buf = NoSlice /\ pt = NoSlice /\ plen = USize(0)
    /\ drv = xor_entry(U32_0, NoSlice)
    /\ result = NoResult
    /\ buf0 = NoSlice /\ start = U32_0
    /\ plain0 = <<>> /\ rng_calls = 0
    /\ overflow_checks = "any"

\* the first len bytes of slice s and the bytes after them, where they are kept
Prefix(s, len) ==
    IF Tracked(s) /\ ULeq(len, s.len) THEN SubSeq(s.bytes, 1, Small(len)) ELSE <<>>
Suffix(s, len) ==
    IF Tracked(s) /\ ULeq(len, s.len) THEN SubSeq(s.bytes, Small(len) + 1, Len(s.bytes))
    ELSE <<>>

\* &mut b[..len]
Upto(b, len) == [len |-> len, bytes |-> Prefix(b, len)]

\* Self::xor(key, nonce, c, data) is entered
EnterXor(c, data) ==
    /\ pc' = "xor"
    /\ drv' = xor_entry(c, data)
    /\ start' = c
    /\ result' = NoResult

\* what is left of data, and the full 64-byte strides in it
Remaining == USub(drv.len, drv.off)
FullStrides == UDiv64(Remaining)

\* the builds the run so far can be of
Builds == IF overflow_checks = "any" THEN {"on", "off"} ELSE {overflow_checks}

\* One pass of the driver's loop
XorIter ==
    /\ pc = "xor"
    /\ Remaining # USize(0)
    /\ ULeq(FullStrides, USize(MaxBlocks))
    /\ \E build \in Builds :
        /\ drv' = xor_pass(build = "on", key, nonce, drv)
        /\ overflow_checks' = IF drv.n = U32_MAX THEN build ELSE overflow_checks
    /\ pc' = IF drv'.panicked THEN "panicked" ELSE "xor"
    /\ buf' = IF Tracked(buf) THEN [buf EXCEPT !.bytes = drv'.bytes \o Suffix(buf, drv.len)]
              ELSE buf
    /\ UNCHANGED <<op, calls, key, nonce, pt, plen, result, buf0, start, plain0, rng_calls>>

\* The passes over all but the last MaxBlocks full strides of a buffer too long
\* to keep, taken at once: none of their increments of n overflows.
XorStrides ==
    /\ pc = "xor"
    /\ ULess(USize(MaxBlocks), FullStrides)
    /\ ~Tracked(buf)
    /\ LET k == USub(FullStrides, USize(MaxBlocks))
           last == USub(UAdd(Widen(drv.n), k), U1)
       IN  /\ ULess(last, Widen(U32_MAX))
           /\ drv' = [drv EXCEPT
                        !.xbuf = chacha20(key, nonce, Low32(last)),
                        !.last = Low32(last),
                        !.n = add(Low32(last), U32(1, 0)),
                        !.off = UAdd(@, UMul64(k)),
                        !.blocks = UAdd(@, k)]
    /\ UNCHANGED <<pc, op, calls, key, nonce, buf, pt, plen, result, buf0, start, plain0,
                   rng_calls, overflow_checks>>

\* data is empty: the driver returns, and the operation returns the length
XorReturn ==
    /\ pc = "xor"
    /\ Remaining = USize(0)
    /\ pc' = "done"
    /\ result' = IF op = "xor" THEN [kind |-> "Unit", val |-> plen] ELSE Ok(plen)
    /\ UNCHANGED <<op, calls, key, nonce, buf, pt, plen, drv, buf0, start, plain0,
                   rng_calls, overflow_checks>>

\* ------------------------------------------------------------------------
\* Cipher

\* A first call takes any input; a later call feeds the output of the call
\* before it back in, with the same key and nonce.
First == pc = "idle"
Again(ops) ==
    /\ pc = "done" /\ op \in ops
    /\ result.kind \in {"Ok", "Unit"}
    /\ calls < MaxCalls

\* Err(ChachaPolyError::ApiMisuse(msg))?
Fail(b, msg) ==
    /\ pc' = "done"
    /\ result' = ApiMisuse(msg)
    /\ buf' = b
    /\ UNCHANGED <<drv, start>>

Called(who, b, p, len, k, nn, payload) ==
    /\ op' = who
    /\ calls' = calls + 1
    /\ key' = k /\ nonce' = nn
    /\ pt' = p /\ plen' = len
    /\ buf0' = b
    /\ plain0' = IF First THEN payload ELSE plain0
    /\ UNCHANGED <<rng_calls, overflow_checks>>

\* encrypt with the driver run over the whole of buf, not buf[..plaintext_len]
encrypt_whole_buf(b, plaintext_len, k, nn) ==
    IF Len(k) # 32 THEN Fail(b, "Invalid key length")
    ELSE IF Len(nn) # 12 THEN Fail(b, "Invalid nonce length")
    ELSE IF ULess(CHACHA20_MAX, plaintext_len) THEN Fail(b, "Too much data")
    ELSE IF ULess(b.len, plaintext_len) THEN Fail(b, "Buffer is too small")
    ELSE /\ buf' = b
         /\ EnterXor(U32_0, b)

\* Cipher::encrypt
encrypt(b, plaintext_len, k, nn) ==
    IF Len(k) # 32 THEN Fail(b, "Invalid key length")
    ELSE IF Len(nn) # 12 THEN Fail(b, "Invalid nonce length")
    ELSE IF ULess(CHACHA20_MAX, plaintext_len) THEN Fail(b, "Too much data")
    ELSE IF ULess(b.len, plaintext_len) THEN Fail(b, "Buffer is too small")
    ELSE /\ buf' = b
         /\ EnterXor(U32_0, Upto(b, plaintext_len))

\* buf[..plaintext.len()].copy_from_slice(plaintext)
copy_from_slice(b, p) ==
    IF Tracked(b) THEN [b EXCEPT !.bytes = p.bytes \o Suffix(b, p.len)] ELSE b

\* encrypt_to with a key check that lets a longer key through
encrypt_to_long_key(b, plaintext, k, nn) ==
    IF Len(k) < 32 THEN Fail(b, "Invalid key length")
    ELSE IF Len(nn) # 12 THEN Fail(b, "Invalid nonce length")
    ELSE IF ULess(CHACHA20_MAX, plaintext.len) THEN Fail(b, "Too much data")
    ELSE IF ULess(b.len, plaintext.len) THEN Fail(b, "Buffer is too small")
    ELSE /\ buf' = copy_from_slice(b, plaintext)
         /\ EnterXor(U32_0, Upto(copy_from_slice(b, plaintext), plaintext.len))

\* Cipher::encrypt_to
encrypt_to(b, plaintext, k, nn) ==
    IF Len(k) # 32 THEN Fail(b, "Invalid key length")
    ELSE IF Len(nn) # 12 THEN Fail(b, "Invalid nonce length")
    ELSE IF ULess(CHACHA20_MAX, plaintext.len) THEN Fail(b, "Too much data")
    ELSE IF ULess(b.len, plaintext.len) THEN Fail(b, "Buffer is too small")
    ELSE /\ buf' = copy_from_slice(b, plaintext)
         /\ EnterXor(U32_0, Upto(copy_from_slice(b, plaintext), plaintext.len))

\* Cipher::decrypt: self.encrypt(buf, ciphertext_len, key, nonce)
decrypt(b, ciphertext_len, k, nn) == encrypt(b, ciphertext_len, k, nn)

\* Cipher::decrypt_to: self.encrypt_to(buf, ciphertext, key, nonce)
decrypt_to(b, ciphertext, k, nn) == encrypt_to(b, ciphertext, k, nn)

InPlace == {"encrypt", "decrypt"}
Copying == {"encrypt_to", "decrypt_to"}

Encrypt ==
    \/ /\ First
       /\ \E b \in Slices, len \in PayloadLens, k \in Keys, nn \in Nonces :
            /\ Called("encrypt", b, NoSlice, len, k, nn, Prefix(b, len))
            /\ encrypt(b, len, k, nn)
    \/ /\ Again(InPlace)
       /\ Called("encrypt", buf, NoSlice, plen, key, nonce, <<>>)
       /\ encrypt(buf, plen, key, nonce)

Decrypt ==
    \/ /\ First
       /\ \E b \in Slices, len \in PayloadLens, k \in Keys, nn \in Nonces :
            /\ Called("decrypt", b, NoSlice, len, k, nn, Prefix(b, len))
            /\ decrypt(b, len, k, nn)
    \/ /\ Again(InPlace)
       /\ Called("decrypt", buf, NoSlice, plen, key, nonce, <<>>)
       /\ decrypt(buf, plen, key, nonce)

\* the output of the call before, copied out of buf
Output == IF Tracked(buf) THEN Slice(Prefix(buf, plen)) ELSE Huge(plen)

EncryptTo ==
    \/ /\ First
       /\ \E b \in Slices, p \in Slices, k \in Keys, nn \in Nonces :
            /\ Called("encrypt_to", b, p, p.len, k, nn, p.bytes)
            /\ encrypt_to(b, p, k, nn)
    \/ /\ Again(Copying)
       /\ Called("encrypt_to", buf, Output, plen, key, nonce, <<>>)
       /\ encrypt_to(buf, Output, key, nonce)

DecryptTo ==
    \/ /\ First
       /\ \E b \in Slices, p \in Slices, k \in Keys, nn \in Nonces :
            /\ Called("decrypt_to", b, p, p.len, k, nn, p.bytes)
            /\ decrypt_to(b, p, k, nn)
    \/ /\ Again(Copying)
       /\ Called("decrypt_to", buf, Output, plen, key, nonce, <<>>)
       /\ decrypt_to(buf, Output, key, nonce)

\* A call of ChaCha20Ietf::xor from within the crate, on a key and a nonce
\* its caller has validated, over the whole of a buffer
Xor ==
    \/ /\ First
       /\ \E d \in {x \in Slices : Tracked(x)}, nn \in {Nonce4a, Nonce09}, c \in Counters :
            /\ Called("xor", d, NoSlice, d.len, RFCKey, nn, d.bytes)
            /\ buf' = d
            /\ EnterXor(c, d)
    \/ /\ Again({"xor"})
       /\ Called("xor", buf, NoSlice, plen, key, nonce, <<>>)
       /\ buf' = buf
       /\ EnterXor(start, buf)

\* ------------------------------------------------------------------------
\* SecKeyGen::new_sec_key

KeyBufs == {Slice(Fill(p, len)) : p \in {0, 7}, len \in {0, 31, 32, 40}}

\* rng.random(&mut buf[..32]): the collaborator either fills the 32 bytes, or
\* reports an error of its own, having written some of them or none
RngOutcomes ==
    {[ok |-> TRUE, bytes |-> Fill(p, 32)] : p \in {1, 5}}
        \cup {[ok |-> FALSE, bytes |-> Fill(11, w)] : w \in {0, 16, 32}}

\* new_sec_key with the RNG's error turned into the API-misuse error
new_sec_key_misuse(b, rng) ==
    IF Len(b.bytes) < 32
    THEN /\ result' = ApiMisuse("Buffer is too small")
         /\ buf' = b
         /\ UNCHANGED rng_calls
    ELSE /\ rng_calls' = rng_calls + 1
         /\ buf' = copy_from_slice(b, Slice(rng.bytes))
         /\ result' = IF rng.ok THEN Ok(USize(32)) ELSE ApiMisuse("Rng failed")

new_sec_key(b, rng) ==
    IF Len(b.bytes) < 32
    THEN /\ result' = ApiMisuse("Buffer is too small")
         /\ buf' = b
         /\ UNCHANGED rng_calls
    ELSE /\ rng_calls' = rng_calls + 1
         /\ buf' = copy_from_slice(b, Slice(rng.bytes))
         /\ result' = IF rng.ok THEN Ok(USize(32)) ELSE [kind |-> "RngError", val |-> USize(0)]

NewSecKey ==
    /\ First
    /\ \E b \in KeyBufs, rng \in RngOutcomes :
        /\ new_sec_key(b, rng)
        /\ buf0' = b
    /\ op' = "new_sec_key"
    /\ calls' = calls + 1
    /\ pc' = "done"
    /\ UNCHANGED <<key, nonce, pt, plen, drv, start, plain0, overflow_checks>>

Next ==
    \/ Encrypt
    \/ EncryptTo
    \/ Decrypt
    \/ DecryptTo
    \/ Xor
    \/ NewSecKey
    \/ XorIter
    \/ XorStrides
    \/ XorReturn

Spec == Init /\ [][Next]_vars

\* ------------------------------------------------------------------------
\* Properties

CipherOps == InPlace \cup Copying
ValidArgs == Len(key) = 32 /\ Len(nonce) = 12
Misuse ==
    \/ Len(key) # 32
    \/ Len(nonce) # 12
    \/ ULess(CHACHA20_MAX, plen)
    \/ ULess(buf0.len, plen)

\* the call is over: it returned or it panicked
Ended == pc \in {"done", "panicked"}
\* the call went through the driver and is over
DriverEnded == op \in CipherOps \cup {"xor"} /\ Ended /\ result.kind # "ApiMisuse"

\* the bytes the driver was given
DriverInput == IF op \in Copying THEN pt.bytes ELSE Prefix(buf0, plen)

\* the build the run so far is of, when that matters
Checks == overflow_checks = "on"

TwoTo32 == <<0, 0, 1, 0>>
\* ceil(len / 64)
BlocksOf(len) == UDiv64(UAdd(len, USize(63)))

\* C1: encrypt, encrypt_to, decrypt and decrypt_to called with a key not of 32
\* bytes, a nonce not of 12, a payload longer than CHACHA20_MAX or a buffer
\* shorter than the payload return the API-misuse error and leave every byte
\* of the buffer as it was.
C1_MisuseRejected ==
    (op \in CipherOps /\ Misuse) =>
        (pc = "done" /\ result.kind = "ApiMisuse" /\ buf = buf0)

C1_Witness ==
    /\ op = "decrypt_to" /\ pc = "done"
    /\ ValidArgs /\ ~ULess(CHACHA20_MAX, plen) /\ ULess(buf0.len, plen)
    /\ Len(buf0.bytes) > 0
    /\ result.kind = "ApiMisuse" /\ buf = buf0

\* C2, as claimed: new_sec_key fails with the API-misuse error both on a
\* buffer shorter than 32 bytes and on a failure of the RNG, in neither case
\* with a byte of the buffer written, and without a call of the RNG in the
\* first.
C2_Original ==
    (op = "new_sec_key" /\ pc = "done" /\ result.kind # "Ok") =>
        /\ result.kind = "ApiMisuse"
        /\ buf = buf0
        /\ (Len(buf0.bytes) < 32 => rng_calls = 0)

\* C2, amended: on a buffer shorter than 32 bytes new_sec_key returns the
\* API-misuse error, calls no RNG and writes no byte; on a longer one it calls
\* the RNG once and returns 32 or the RNG's own error, with the bytes from
\* offset 32 on as they were (the first 32 are the RNG's to write, also when
\* it fails).
C2_KeyGen ==
    (op = "new_sec_key" /\ pc = "done") =>
        IF Len(buf0.bytes) < 32
        THEN result.kind = "ApiMisuse" /\ buf = buf0 /\ rng_calls = 0
        ELSE /\ rng_calls = 1
             /\ result \in {Ok(USize(32)), [kind |-> "RngError", val |-> USize(0)]}
             /\ buf.len = buf0.len
             /\ Suffix(buf, USize(32)) = Suffix(buf0, USize(32))

C2_Witness ==
    /\ op = "new_sec_key" /\ pc = "done"
    /\ result.kind = "RngError" /\ rng_calls = 1
    /\ buf # buf0

\* the 64 bytes of RFC 8439, section 2.3.2
RFCBlock ==
    <<16, 241, 231, 228, 209, 59, 89, 21, 80, 15, 221, 31, 163, 32, 113, 196,
      199, 209, 244, 199, 51, 192, 104, 3, 4, 34, 170, 154, 195, 212, 108, 78,
      210, 130, 100, 70, 7, 159, 170, 9, 20, 194, 215, 5, 217, 139, 2, 162,
      181, 18, 156, 209, 222, 22, 78, 185, 203, 208, 131, 232, 162, 80, 60, 78>>

\* the driver's last call of chacha20 was with these arguments
BlockOf(k, nn, c) ==
    /\ drv.blocks # USize(0)
    /\ key = k /\ nonce = nn /\ drv.last = c

\* C3, as claimed: the block of key 00..1f, nonce 00 00 00 00 00 00 00 4a
\* 00 00 00 00 and counter 1 is 10 f1 e7 e4 ... 3c 4e.
C3_Original == BlockOf(RFCKey, Nonce4a, U32(1, 0)) => drv.xbuf = RFCBlock

\* C3, amended: the block of key 00..1f, nonce 00 00 00 09 00 00 00 4a
\* 00 00 00 00 (the nonce of RFC 8439, section 2.3.2) and counter 1 is
\* 10 f1 e7 e4 ... 3c 4e.
C3_Block == BlockOf(RFCKey, Nonce09, U32(1, 0)) => drv.xbuf = RFCBlock

C3_Witness == BlockOf(RFCKey, Nonce09, U32(1, 0)) /\ drv.xbuf = RFCBlock

RECURSIVE KeyStream(_, _, _, _)
\* blocks c, c + 1, ... of the keystream, for len bytes
KeyStream(k, nn, c, len) ==
    IF len <= 0 THEN <<>>
    ELSE IF len < 64 THEN SubSeq(chacha20(k, nn, c), 1, len)
    ELSE chacha20(k, nn, c) \o KeyStream(k, nn, add(c, U32(1, 0)), len - 64)

\* data[j] XOR block(key, nonce, c + j div 64)[j mod 64], for every j
Enciphered(k, nn, c, data) ==
    LET ks == KeyStream(k, nn, c, Len(data))
    IN  [j \in 1..Len(data) |-> xor_u8(data[j], ks[j])]

\* C4: for every starting counter c and buffer of len bytes with
\* c + ceil(len / 64) <= 2^32 the driver replaces byte j of the buffer by
\* data[j] XOR block(key, nonce, c + j div 64)[j mod 64].
C4_Keystream ==
    (/\ DriverEnded /\ Tracked(buf)
     /\ ULeq(UAdd(Widen(start), BlocksOf(drv.len)), TwoTo32)) =>
        /\ pc = "done"
        /\ Prefix(buf, plen) = Enciphered(key, nonce, start, DriverInput)

\* C4 short of the limit, c + ceil(len / 64) < 2^32, where no increment of
\* the counter overflows
KeystreamBelowLimit ==
    (/\ DriverEnded /\ Tracked(buf)
     /\ ULess(UAdd(Widen(start), BlocksOf(drv.len)), TwoTo32)) =>
        /\ pc = "done"
        /\ Prefix(buf, plen) = Enciphered(key, nonce, start, DriverInput)

\* C5: the driver applied twice with the same key, nonce and counter restores
\* the data, so for a valid key and nonce and a length L the buffer holds,
\* encrypt and then decrypt (encrypt_to and then decrypt_to) return L both
\* times and leave buf[0..L] as the plaintext was.
C5_RoundTrip ==
    /\ (op = "xor" /\ pc = "done" /\ calls = 2) => buf.bytes = plain0
    /\ (/\ op \in CipherOps /\ Ended
        /\ ValidArgs /\ ULeq(plen, CHACHA20_MAX) /\ ULeq(plen, buf0.len)) =>
            /\ pc = "done"
            /\ result = Ok(plen)
            /\ (calls = 2 /\ Tracked(buf)) => Prefix(buf, plen) = plain0

\* C5 for the calls that return: the second of two calls in a row restores
\* the payload of the first
RoundTripOfReturned ==
    (/\ op \in CipherOps \cup {"xor"} /\ pc = "done"
     /\ result.kind \in {"Ok", "Unit"} /\ Tracked(buf)) =>
        /\ op \in CipherOps => result = Ok(plen)
        /\ calls = 2 => Prefix(buf, plen) = plain0

\* the driver run over bytes with counter c: what it leaves of them
Run(c, bytes) == xor(Checks, key, nonce, c, Slice(bytes))

\* C6: for every split point 64 * k within data, the driver run over the whole
\* of data with counter c leaves the bytes of its run over data[0..64k] with
\* counter c followed by those of its run over data[64k..] with counter c + k.
C6_CounterLinearity ==
    (op = "xor" /\ pc = "done") =>
        \A k \in 0..MaxBlocks :
            (/\ 64 * k <= Len(buf0.bytes)
             /\ ULeq(UAdd(Widen(start), USize(k)), Widen(U32_MAX))) =>
                LET head == Run(start, SubSeq(buf0.bytes, 1, 64 * k))
                    tail == Run(Low32(UAdd(Widen(start), USize(k))),
                                SubSeq(buf0.bytes, 64 * k + 1, Len(buf0.bytes)))
                IN  /\ ~head.panicked /\ ~tail.panicked
                    /\ buf.bytes = head.bytes \o tail.bytes

C6_Witness ==
    /\ op = "xor" /\ pc = "done"
    /\ start = U32(1, 0)
    /\ Len(buf0.bytes) = 64 * MaxBlocks
    /\ buf.bytes # buf0.bytes
    /\ buf.bytes = Run(start, SubSeq(buf0.bytes, 1, 64)).bytes
                    \o Run(U32(2, 0), SubSeq(buf0.bytes, 65, Len(buf0.bytes))).bytes

\* C7: for a valid key and nonce and a plaintext no longer than the buffer and
\* CHACHA20_MAX, encrypt_to and decrypt_to return the plaintext's length and
\* leave in the buffer's prefix what encrypt leaves of a prefix that holds the
\* plaintext: the plaintext XOR the keystream from block 0 on.
C7_EncryptTo ==
    (/\ op \in Copying /\ Ended
     /\ ValidArgs /\ ULeq(plen, CHACHA20_MAX) /\ ULeq(plen, buf0.len)) =>
        /\ pc = "done"
        /\ result = Ok(pt.len)
        /\ Tracked(buf) =>
            /\ Prefix(buf, plen) = Run(U32_0, pt.bytes).bytes
            /\ Prefix(buf, plen) = Enciphered(key, nonce, U32_0, pt.bytes)

\* C7 for the calls that return
EncryptToOfReturned ==
    (op \in Copying /\ pc = "done" /\ result.kind = "Ok") =>
        /\ result = Ok(pt.len)
        /\ Tracked(buf) =>
            /\ Prefix(buf, plen) = Run(U32_0, pt.bytes).bytes
            /\ Prefix(buf, plen) = Enciphered(key, nonce, U32_0, pt.bytes)

\* C8: in a call of encrypt, encrypt_to, decrypt or decrypt_to that passes the
\* checks no increment of the driver's counter overflows: the call does not
\* panic, and the counter is the number of blocks computed, unwrapped.
C8_NoCounterOverflow ==
    (op \in CipherOps /\ result.kind # "ApiMisuse") =>
        /\ pc # "panicked"
        /\ Widen(drv.n) = UAdd(Widen(start), drv.blocks)

\* C9: a call of encrypt, encrypt_to, decrypt or decrypt_to that returns its
\* length leaves the buffer's bytes from that length on as they were, and no
\* step of a call changes the key, the nonce or the payload slice.
C9_Frame ==
    /\ []((op \in CipherOps /\ pc = "done" /\ result.kind = "Ok") =>
            /\ buf.len = buf0.len
            /\ Tracked(buf) => Suffix(buf, plen) = Suffix(buf0, plen))
    /\ [][pc = "xor" => (key' = key /\ nonce' = nonce /\ pt' = pt)]_vars

C9_Witness ==
    /\ op = "encrypt" /\ pc = "done" /\ result.kind = "Ok"
    /\ plen = USize(1) /\ Len(buf0.bytes) = 64 * MaxBlocks
    /\ buf # buf0
    /\ Suffix(buf, plen) = Suffix(buf0, plen)

\* C10: the driver's loop ends after ceil(len / 64) calls of chacha20, with
\* the counters start, start + 1, ... in increasing order; on an empty buffer
\* it computes no block and writes nothing, and encrypt returns 0.
C10_Termination ==
    (op \in CipherOps \cup {"xor"} /\ result.kind # "ApiMisuse") =>
        /\ pc # "panicked"
        /\ drv.blocks # USize(0) =>
            UAdd(Widen(drv.last), U1) = UAdd(Widen(start), drv.blocks)
        /\ pc = "done" =>
            /\ drv.blocks = BlocksOf(drv.len)
            /\ drv.len = USize(0) => (buf = buf0 /\ result.val = USize(0))

\* C10 for the runs in which no increment of the counter overflows; every
\* pass of the loop shortens what is left of data.
TerminationBelowLimit ==
    /\ []((/\ op \in CipherOps \cup {"xor"} /\ result.kind # "ApiMisuse"
           /\ ULess(UAdd(Widen(start), BlocksOf(drv.len)), TwoTo32)) =>
            /\ pc # "panicked"
            /\ drv.blocks # USize(0) =>
                UAdd(Widen(drv.last), U1) = UAdd(Widen(start), drv.blocks)
            /\ pc = "done" =>
                /\ drv.blocks = BlocksOf(drv.len)
                /\ drv.len = USize(0) => (buf = buf0 /\ result.val = USize(0)))
    /\ [][(XorIter \/ XorStrides) =>
            (pc' = "panicked" \/ ULess(USub(drv'.len, drv'.off), Remaining))]_vars

====
